---- MODULE Spec2Model ----
(***************************************************************************)
(* Model of the Bleta news aggregator (scripts/update_feed.py, config.py): *)
(* the ingestion / deduplication / enrichment pipeline of                  *)
(* BletaNewsAggregator, its dedup-store file and its daily archive.        *)
(*                                                                         *)
(* Python strings are sequences of one-character strings, so that          *)
(* concatenation, slicing and len() are the Python ones.  Python dicts are *)
(* functions whose DOMAIN is the set of keys that are present.             *)
(***************************************************************************)
EXTENDS Integers, Sequences, FiniteSets, TLC

(***************************************************************************)
(* Bounds of the model.                                                    *)
(***************************************************************************)
MaxRuns == 2
MaxDay == 2

(***************************************************************************)
(* Program constants.                                                      *)
(***************************************************************************)
max_articles_per_source == 10
SummaryBudget == 200

(***************************************************************************)
(* String helpers.                                                         *)
(***************************************************************************)
Min(a, b) == IF a < b THEN a ELSE b

\* Python s[:n]
Prefix(s, n) == SubSeq(s, 1, Min(n, Len(s)))

\* n copies of the character c
Rep(c, n) == [i \in 1..n |-> c]

Letters == {"a", "b", "c", "d", "g", "l", "m", "p", "s", "t", "x", "u", "n", "k", "o", "w"}
Whitespace == {" ", "\n"}

DigitChar(d) == CASE d = 0 -> "0" [] d = 1 -> "1" [] d = 2 -> "2" [] d = 3 -> "3"
                  [] d = 4 -> "4" [] d = 5 -> "5" [] d = 6 -> "6" [] d = 7 -> "7"
                  [] d = 8 -> "8" [] d = 9 -> "9"

RECURSIVE Digits(_)
Digits(n) == IF n < 10 THEN <<DigitChar(n)>>
             ELSE Digits(n \div 10) \o <<DigitChar(n % 10)>>

\* datetime.isoformat() of the clock value n: a timestamp string, different
\* for different clock values.
\* a timestamp that does not change with the clock
IsoFormatFrozen(n) == <<"T">> \o Digits(0)

IsoFormat(n) == <<"T">> \o Digits(n)

\* date.strftime("%Y-%m-%d") of the calendar day d
StrfDate(d) == <<"D">> \o Digits(d)

(***************************************************************************)
(* Python dict access.                                                     *)
(***************************************************************************)
\* d.get(k, default)
Get(d, k, default) == IF k \in DOMAIN d THEN d[k] ELSE default

\* truth value of d.get(k): the key is present and its string is not empty
Truthy(d, k) == k \in DOMAIN d /\ d[k] # <<>>

(***************************************************************************)
(* config.py                                                               *)
(***************************************************************************)
ALBANIAN_NEWS_SOURCES ==
    << [name |-> "Top Channel", url |-> "https://top-channel.tv/feed/",
        language |-> "sq", enabled |-> TRUE],
       [name |-> "Albanian Daily News", url |-> "https://albaniandailynews.com/feed/",
        language |-> "en", enabled |-> TRUE],
       [name |-> "Exit.al", url |-> "https://exit.al/feed/",
        language |-> "en", enabled |-> FALSE] >>

SourceNames == {ALBANIAN_NEWS_SOURCES[i].name : i \in DOMAIN ALBANIAN_NEWS_SOURCES}

RECURSIVE FilterEnabled(_)
FilterEnabled(srcs) ==
    IF srcs = <<>> THEN <<>>
    ELSE (IF Get(Head(srcs), "enabled", TRUE) THEN <<Head(srcs)>> ELSE <<>>)
         \o FilterEnabled(Tail(srcs))

get_enabled_sources == FilterEnabled(ALBANIAN_NEWS_SOURCES)

get_archive_filename(date_obj) == StrfDate(date_obj) \o <<".json">>

get_archive_path(date_obj) == <<"data/archive/">> \o get_archive_filename(date_obj)

(***************************************************************************)
(* _clean_text: BeautifulSoup(text, 'html.parser').get_text(), then        *)
(* strip() and ' '.join(text.split()).                                     *)
(***************************************************************************)
MinOf(S) == CHOOSE k \in S : \A m \in S : k <= m

\* index of the first character of s at or after position i that is in C,
\* Len(s) + 1 when there is none
FirstIn(s, C, i) ==
    LET S == {k \in i..Len(s) : s[k] \in C}
    IN  IF S = {} THEN Len(s) + 1 ELSE MinOf(S)

\* index of the first character of s at or after position i that is not in
\* C, Len(s) + 1 when there is none
FirstNotIn(s, C, i) ==
    LET S == {k \in i..Len(s) : s[k] \notin C}
    IN  IF S = {} THEN Len(s) + 1 ELSE MinOf(S)

EntityChar(name) == CASE name = <<"l", "t">> -> <<"<">>
                      [] name = <<"g", "t">> -> <<">">>
                      [] name = <<"a", "m", "p">> -> <<"&">>
                      [] OTHER -> <<"&">> \o name

\* The text nodes of the parsed document, concatenated, scanning from i.
\* "<" opens a tag when a letter or "/" follows and a ">" closes it; the tag
\* is dropped.  "&name" followed by a further character is an entity
\* reference (a ";" after it is consumed).  Everything else is text.
RECURSIVE GetText(_, _)
GetText(s, i) ==
    IF i > Len(s) THEN <<>>
    ELSE IF s[i] = "<" THEN
        IF i < Len(s) /\ (s[i + 1] \in Letters \/ s[i + 1] = "/")
        THEN LET j == FirstIn(s, {">"}, i + 1)
             IN  IF j > Len(s) THEN <<"<">> \o GetText(s, i + 1)   \* never closed
                 ELSE GetText(s, j + 1)
        ELSE <<"<">> \o GetText(s, i + 1)
    ELSE IF s[i] = "&" THEN
        LET e == FirstNotIn(s, Letters, i + 1)
        IN  IF e > i + 1 /\ e <= Len(s)
            THEN EntityChar(SubSeq(s, i + 1, e - 1))
                 \o GetText(s, IF s[e] = ";" THEN e + 1 ELSE e)
            ELSE <<"&">> \o GetText(s, i + 1)
    ELSE LET j == FirstIn(s, {"<", "&"}, i)
         IN  SubSeq(s, i, j - 1) \o GetText(s, j)

\* ' '.join(s.split()), scanning from i; first is TRUE until a word is out
RECURSIVE JoinSplit(_, _, _)
JoinSplit(s, i, first) ==
    LET b == FirstNotIn(s, Whitespace, i)      \* where the next word begins
        e == FirstIn(s, Whitespace, b)         \* and the first index after it
    IN  IF b > Len(s) THEN <<>>
        ELSE (IF first THEN <<>> ELSE <<" ">>) \o SubSeq(s, b, e - 1)
             \o JoinSplit(s, e, FALSE)

_clean_text(text) ==
    IF text = <<>> THEN <<>>
    ELSE JoinSplit(GetText(text, 1), 1, TRUE)

(***************************************************************************)
(* _generate_article_id                                                    *)
(***************************************************************************)
Unknown == <<"u", "n", "k", "n", "o", "w", "n">>

\* the branch of _generate_article_id that article takes
IdBranch(article) ==
    IF Truthy(article, "link") THEN "link"
    ELSE IF Truthy(article, "title") /\ Truthy(article, "published") THEN "title_published"
    ELSE "title_now"

\* _generate_article_id that looks at title and published before the link
_generate_article_id_title_first(article, now) ==
    IF Truthy(article, "title") /\ Truthy(article, "published")
    THEN article["title"] \o <<"_">> \o article["published"]
    ELSE IF Truthy(article, "link") THEN article["link"]
    ELSE Get(article, "title", Unknown) \o <<"_">> \o IsoFormat(now)

_generate_article_id(article, now) ==
    IF Truthy(article, "link") THEN article["link"]
    ELSE IF Truthy(article, "title") /\ Truthy(article, "published")
         THEN article["title"] \o <<"_">> \o article["published"]
    ELSE Get(article, "title", Unknown) \o <<"_">> \o IsoFormat(now)

(***************************************************************************)
(* _summarize_with_gemini.  ai_client is TRUE when the client is set; call *)
(* is the outcome of generate_content: [kind |-> "raise"], or              *)
(* [kind |-> "none"] (a falsy response), or [kind |-> "text", text |-> s]. *)
(* What the service answers does not depend on the prompt here, so the     *)
(* prompt itself is not kept.                                              *)
(***************************************************************************)
\* Truncate with the marker already at the budget (">=" for ">")
TruncateAtBudget(text) ==
    IF Len(text) >= SummaryBudget THEN Prefix(text, SummaryBudget) \o <<".", ".", ".">>
    ELSE text

Truncate(text) ==
    IF Len(text) > SummaryBudget THEN Prefix(text, SummaryBudget) \o <<".", ".", ".">>
    ELSE text

\* str.strip()
Strip(s) ==
    LET S == {k \in 1..Len(s) : s[k] \notin Whitespace}
    IN  IF S = {} THEN <<>>
        ELSE SubSeq(s, MinOf(S), CHOOSE k \in S : \A m \in S : m <= k)

_summarize_with_gemini(ai_client, call, text) ==
    IF ~ai_client \/ text = <<>> THEN Truncate(text)
    ELSE IF call.kind = "raise" THEN Truncate(text)
    ELSE IF call.kind = "text" /\ call.text # <<>> THEN Strip(call.text)
    ELSE Truncate(text)

(***************************************************************************)
(* Feed entries as feedparser returns them (a key is absent when the feed  *)
(* item has no such element) and the HTTP responses of the sources.        *)
(***************************************************************************)
EntryA == [title |-> <<"<", "b", ">", "t", "<", "/", "b", ">">>, link |-> <<"a">>,
           description |-> <<" ", "d", " ", " ", "d">>, published |-> <<"p">>,
           id |-> <<"g">>]
EntryA2 == [title |-> <<"x">>, link |-> <<"a">>]
EntryB == [title |-> <<"x">>, link |-> <<"b">>,
           description |-> Rep("d", SummaryBudget + 1)]
EntryU == [title |-> <<"t">>, description |-> Rep("d", SummaryBudget)]
\* a second entry with the title of EntryU, and nothing else
EntryU2 == [title |-> <<"t">>]
EntryTP == [title |-> <<"a">>, published |-> <<"b">>]
\* its description is the escaped markup &lt;b&gt;d&lt;/b&gt;
EntryAB == [title |-> <<"x">>, link |-> <<"a", "_", "b">>,
            description |-> <<"&", "l", "t", ";", "b", "&", "g", "t", ";", "d",
                              "&", "l", "t", ";", "/", "b", "&", "g", "t", ";">>]
EntryAnon == [description |-> <<"d">>, published |-> <<"p">>]

LongFeed == [i \in 1..(max_articles_per_source + 1) |->
                IF i <= max_articles_per_source THEN EntryA2 ELSE EntryB]

Ok(entries) == [kind |-> "ok", status |-> 200, entries |-> entries]

Responses ==
    { [kind |-> "timeout"],
      [kind |-> "ok", status |-> 500, entries |-> <<EntryA>>],
      Ok(<<>>), Ok(<<EntryA>>), Ok(<<EntryA2, EntryB>>), Ok(<<EntryU>>),
      Ok(<<EntryTP, EntryAB>>), Ok(<<EntryAnon>>), Ok(LongFeed) }

EnabledNames == {get_enabled_sources[i].name : i \in DOMAIN get_enabled_sources}

\* what every source currently answers; the disabled source has a feed too
Worlds == {[n \in SourceNames |-> IF n \in EnabledNames THEN w[n] ELSE Ok(<<EntryB>>)] :
              w \in [EnabledNames -> Responses]}

\* The answers of the sources over several invocations: the second enabled
\* source serves the same entry all along, the first one changes.
RunResponses == { [kind |-> "timeout"], Ok(<<EntryA2, EntryB>>),
                  Ok(<<EntryU, EntryU2>>) }

RunWorlds ==
    {[n \in SourceNames |->
         IF n = get_enabled_sources[1].name THEN r
         ELSE IF n \in EnabledNames THEN Ok(<<EntryA>>) ELSE Ok(<<EntryB>>)] :
        r \in RunResponses}

\* The answers of the sources to two overlapping invocations.
RaceResponses == { [kind |-> "timeout"], Ok(<<EntryA>>), Ok(<<EntryA2, EntryB>>),
                   Ok(<<EntryU>>) }

RaceWorlds ==
    {[n \in SourceNames |->
         IF n = get_enabled_sources[1].name THEN r
         ELSE IF n \in EnabledNames THEN Ok(<<EntryA>>) ELSE Ok(<<EntryB>>)] :
        r \in RaceResponses}

(***************************************************************************)
(* _fetch_rss_feed                                                         *)
(***************************************************************************)
\* requests.get raises on a timeout or a DNS failure, raise_for_status on a
\* status of 400 and above
\* FetchRaises without response.raise_for_status()
FetchRaisesNoStatus(response) == response.kind \in {"timeout", "dns"}

FetchRaises(response) ==
    \/ response.kind \in {"timeout", "dns"}
    \/ response.kind = "ok" /\ response.status >= 400

MakeArticle(entry, source, now) ==
    [title |-> _clean_text(Get(entry, "title", <<>>)),
     link |-> Get(entry, "link", <<>>),
     description |-> _clean_text(Get(entry, "description", <<>>)),
     published |-> Get(entry, "published", <<>>),
     source |-> source.name,
     source_url |-> source.url,
     language |-> source.language,
     guid |-> Get(entry, "id", Get(entry, "link", <<>>)),
     fetched_at |-> IsoFormat(now)]

\* _fetch_rss_feed over feed.entries instead of feed.entries[:max]
_fetch_rss_feed_untruncated(source, response, now) ==
    IF FetchRaises(response) THEN <<>>
    ELSE [i \in 1..Len(response.entries) |->
             MakeArticle(response.entries[i], source, now)]

_fetch_rss_feed(source, response, now) ==
    IF FetchRaises(response) THEN <<>>
    ELSE [i \in 1..Min(Len(response.entries), max_articles_per_source) |->
             MakeArticle(response.entries[i], source, now)]

(***************************************************************************)
(* The dedup-store file data/processed.json and its in-memory value.       *)
(* A parsed JSON value is [type |-> "list"] (a JSON array) or              *)
(* [type |-> "dict", dict |-> d]; the value under "processed_ids" is       *)
(* [type |-> "list", items |-> S] (the order of the list is not kept),     *)
(* [type |-> "null"] or [type |-> "str", chars |-> s].                     *)
(***************************************************************************)
IdList(S) == [type |-> "list", items |-> S]

StoreDict(S, stamp) ==
    [type |-> "dict",
     dict |-> [processed_ids |-> IdList(S), last_updated |-> stamp]]

JsonFile(v) == [kind |-> "json", value |-> v]

InitFiles ==
    { [kind |-> "missing"], [kind |-> "unreadable"], [kind |-> "garbage"],
      JsonFile([type |-> "list"]),
      JsonFile([type |-> "dict", dict |-> [last_updated |-> IsoFormat(0)]]),
      JsonFile([type |-> "dict",
                dict |-> [processed_ids |-> [type |-> "null"],
                          last_updated |-> IsoFormat(0)]]),
      JsonFile([type |-> "dict",
                dict |-> [processed_ids |-> [type |-> "str", chars |-> <<"a", "b">>],
                          last_updated |-> IsoFormat(0)]]),
      JsonFile(StoreDict({}, IsoFormat(0))),
      JsonFile(StoreDict({<<"a">>}, IsoFormat(0))) }

\* os.path.exists, then open and json.load inside the try block
RunFiles == { [kind |-> "missing"] }

\* _load_processed_articles that never reads the file
_load_processed_articles_fresh(file, now) == StoreDict({}, IsoFormat(now))

_load_processed_articles(file, now) ==
    IF file.kind # "missing"
    THEN IF file.kind = "json" THEN file.value      \* whatever JSON it holds
         ELSE StoreDict({}, IsoFormat(now))         \* open or json.load raised
    ELSE StoreDict({}, IsoFormat(now))

\* set(self.processed_articles.get("processed_ids", [])) raises when the
\* loaded value has no .get or the ids are not iterable
IdsRaise(pa) ==
    \/ pa.type # "dict"
    \/ "processed_ids" \in DOMAIN pa.dict /\ pa.dict["processed_ids"].type = "null"

IdsOf(pa) ==
    LET v == Get(pa.dict, "processed_ids", IdList({}))
    IN  IF v.type = "list" THEN v.items
        ELSE {<<v.chars[i]>> : i \in DOMAIN v.chars}

\* the identities a later run finds in the file
FileIds(file) ==
    LET pa == _load_processed_articles(file, 0)
    IN  IF IdsRaise(pa) THEN {} ELSE IdsOf(pa)

\* d[k] = v on a Python dict
DictSet(d, k, v) == [x \in DOMAIN d \cup {k} |-> IF x = k THEN v ELSE d[x]]


(***************************************************************************)
(* State.                                                                  *)
(***************************************************************************)
VARIABLES
    processed_file,   \* the file data/processed.json
    archive,          \* archive path -> the file data/archive/<date>.json
    feeds,            \* source name -> what the source answers now
    now,              \* the clock datetime.now() reads
    today,            \* the calendar day datetime.now() reads
    api_key,          \* the environment has a GOOGLE_API_KEY
    scheduled,        \* number of invocations the scheduler makes in all
    runs,             \* number of invocations of main() so far
    stable,           \* the last run ended with the store saved and the feeds
                      \* have not changed since
    run,              \* process -> the state of its BletaNewsAggregator
    emitted           \* history: the links in the enriched output of the runs
                      \* that have ended, kept while every load and save of
                      \* the store has succeeded (ok)

vars == <<processed_file, archive, feeds, now, today, api_key, scheduled, runs, stable, run,
          emitted>>

Procs == {1, 2}

\* the processes the external scheduler starts, one after the other
SeqProcs == {1}

Days == 1..MaxDay

ArchivePaths == {get_archive_path(d) : d \in Days}

AiCalls == { [kind |-> "raise"], [kind |-> "none"],
             [kind |-> "text", text |-> <<>>],
             [kind |-> "text", text |-> <<" ", "s", "\n">>] }

NoFile == [kind |-> "missing"]

IdleRun ==
    [pc |-> "idle",
     ai_client |-> FALSE,
     processed_articles |-> StoreDict({}, IsoFormat(0)),  \* self.processed_articles
     sidx |-> 1,                  \* position of the loop over enabled_sources
     all_articles |-> <<>>,
     aidx |-> 1,                  \* position of the loop over articles
     processed_ids |-> {},        \* the local set of _process_articles
     new_articles |-> <<>>,       \* the local list processed_articles
     \* history of the run, read by the properties only
     new_ids |-> <<>>,            \* the identity given to each new article
     summarized |-> <<>>,         \* the text each Summarizer call was made on
     calls |-> <<>>,              \* what the AI call of each new article did
     seen_ids |-> <<>>,           \* the identity computed for each article
     id_times |-> <<>>,           \* the clock value each identity was computed at
     started_at |-> 0,            \* the clock when the process started
     succ |-> FALSE,              \* started right after a saved run, same feeds
     file_at_start |-> NoFile,
     archive_at_start |-> [q \in ArchivePaths |-> NoFile],
     fetched |-> <<>>,            \* the response each fetched source gave
     archive_calls |-> 0,
     archive_outcome |-> "none",
     save_calls |-> 0,
     save_outcome |-> "none",
     archived_before_save |-> FALSE]

Quiet(p) == run[p].pc = "idle"

\* One invocation, from every dedup file and every answer of the sources.
Init ==
    /\ scheduled = 1
    /\ api_key \in BOOLEAN
    /\ processed_file \in InitFiles
    /\ feeds \in Worlds
    /\ archive = [q \in ArchivePaths |-> NoFile]
    /\ now = 1
    /\ today = 1
    /\ runs = 0
    /\ stable = FALSE
    /\ run = [p \in Procs |-> IdleRun]
    /\ emitted = [links |-> {}, ok |-> TRUE]

\* MaxRuns invocations, one after the other, the first one without a dedup
\* file and without a GOOGLE_API_KEY.
InitRuns ==
    /\ scheduled = MaxRuns
    /\ api_key = FALSE
    /\ processed_file \in RunFiles
    /\ feeds \in RunWorlds
    /\ archive = [q \in ArchivePaths |-> NoFile]
    /\ now = 1
    /\ today = 1
    /\ runs = 0
    /\ stable = FALSE
    /\ run = [p \in Procs |-> IdleRun]
    /\ emitted = [links |-> {}, ok |-> TRUE]

(***************************************************************************)
(* _init_ai_client: the values self.ai_client can get (TRUE: a client).    *)
(* Without the key there is none; with it, genai.configure may raise.      *)
(***************************************************************************)
_init_ai_client(key) == IF ~key THEN {FALSE} ELSE {TRUE, FALSE}

(***************************************************************************)
(* main(): BletaNewsAggregator() -- __init__ sets the AI client (unset     *)
(* without GOOGLE_API_KEY or when genai.configure raises) and loads the    *)
(* dedup store -- then run() up to its loop over the sources.  A new       *)
(* invocation starts later than everything the one before it did.          *)
(***************************************************************************)
Launch(p) ==
    /\ runs < scheduled
    /\ Quiet(p)
    /\ \E client \in _init_ai_client(api_key) :
          run' = [run EXCEPT ![p] =
                    [IdleRun EXCEPT
                        !.pc = "fetch",
                        !.ai_client = client,
                        !.processed_articles =
                            _load_processed_articles(processed_file, now + 1),
                        !.succ = stable,
                        !.started_at = now + 1,
                        !.file_at_start = processed_file,
                        !.archive_at_start = archive]]
    /\ now' = now + 1
    /\ runs' = runs + 1
    /\ stable' = FALSE
    /\ UNCHANGED <<processed_file, archive, feeds, today, api_key, scheduled, emitted>>

\* the scheduler starts an invocation when no other one is running
StartRun(p) ==
    /\ \A q \in Procs : Quiet(q)
    /\ Launch(p)

\* nothing in the program keeps two invocations apart (no lock on the store
\* directory): started by hand or by overlapping schedules, an invocation
\* may begin while another one is running
StartOverlapping(p) == Launch(p)

(***************************************************************************)
(* run(): one iteration of "for source in enabled_sources".                *)
(***************************************************************************)
FetchSource(p) ==
    /\ run[p].pc = "fetch"
    /\ run[p].sidx <= Len(get_enabled_sources)
    /\ LET source == get_enabled_sources[run[p].sidx]
           articles == _fetch_rss_feed(source, feeds[source.name], now)
       IN  run' = [run EXCEPT
                     ![p].all_articles = run[p].all_articles \o articles,
                     ![p].sidx = run[p].sidx + 1,
                     ![p].fetched = Append(run[p].fetched, feeds[source.name])]
    /\ UNCHANGED <<processed_file, archive, feeds, now, today, api_key, scheduled, runs, stable, emitted>>

(***************************************************************************)
(* _process_articles, lines 184-185: the local list and the set of the     *)
(* identities already in the store.  A store that is no dict, or whose     *)
(* ids cannot be iterated, raises out of run().                            *)
(***************************************************************************)
\* ProcessBegin that reads the identities from the file as it is now, not
\* from the store loaded when the invocation started
ProcessBeginFromFile(p) ==
    /\ run[p].pc = "fetch"
    /\ run[p].sidx > Len(get_enabled_sources)
    /\ IF IdsRaise(run[p].processed_articles)
       THEN run' = [run EXCEPT ![p].pc = "aborted"]
       ELSE run' = [run EXCEPT
                      ![p].pc = "process",
                      ![p].aidx = 1,
                      ![p].new_articles = <<>>,
                      ![p].processed_ids = FileIds(processed_file)]
    /\ UNCHANGED <<processed_file, archive, feeds, now, today, api_key, scheduled, runs, stable, emitted>>

ProcessBegin(p) ==
    /\ run[p].pc = "fetch"
    /\ run[p].sidx > Len(get_enabled_sources)
    /\ IF IdsRaise(run[p].processed_articles)
       THEN run' = [run EXCEPT ![p].pc = "aborted"]
       ELSE run' = [run EXCEPT
                      ![p].pc = "process",
                      ![p].aidx = 1,
                      ![p].new_articles = <<>>,
                      ![p].processed_ids = IdsOf(run[p].processed_articles)]
    /\ UNCHANGED <<processed_file, archive, feeds, now, today, api_key, scheduled, runs, stable, emitted>>

(***************************************************************************)
(* _process_articles, lines 187-208: the body of "for article in           *)
(* articles".  r is the run's state, call the outcome of the AI call (if   *)
(* one is made), t the clock.                                              *)
(***************************************************************************)
\* SummaryInput that always takes the title
SummaryInputTitle(article) == article["title"]

SummaryInput(article) ==
    IF Truthy(article, "description") THEN article["description"]
    ELSE article["title"]

\* ProcessOne without processed_ids.add(article_id)
ProcessOneNoMark(r, call, t) ==
    LET article == r.all_articles[r.aidx]
        article_id == _generate_article_id(article, t)
    IN  IF article_id \in r.processed_ids
        THEN [r EXCEPT !.aidx = r.aidx + 1,
                       !.seen_ids = Append(r.seen_ids, article_id),
                       !.id_times = Append(r.id_times, t)]
        ELSE LET text == SummaryInput(article)
                 summary == _summarize_with_gemini(r.ai_client, call, text)
                 enriched == [k \in DOMAIN article \cup {"ai_summary"} |->
                                 IF k = "ai_summary" THEN summary ELSE article[k]]
             IN  [r EXCEPT !.aidx = r.aidx + 1,
                           !.new_articles = Append(r.new_articles, enriched),
                           !.new_ids = Append(r.new_ids, article_id),
                           !.summarized = Append(r.summarized, text),
                           !.calls = Append(r.calls, call),
                           !.seen_ids = Append(r.seen_ids, article_id),
                           !.id_times = Append(r.id_times, t)]

ProcessOne(r, call, t) ==
    LET article == r.all_articles[r.aidx]
        article_id == _generate_article_id(article, t)
    IN  IF article_id \in r.processed_ids
        THEN [r EXCEPT !.aidx = r.aidx + 1,
                       !.seen_ids = Append(r.seen_ids, article_id),
                       !.id_times = Append(r.id_times, t)]
        ELSE LET text == SummaryInput(article)
                 summary == _summarize_with_gemini(r.ai_client, call, text)
                 enriched == [k \in DOMAIN article \cup {"ai_summary"} |->
                                 IF k = "ai_summary" THEN summary ELSE article[k]]
             IN  [r EXCEPT !.aidx = r.aidx + 1,
                           !.new_articles = Append(r.new_articles, enriched),
                           !.processed_ids = r.processed_ids \cup {article_id},
                           !.new_ids = Append(r.new_ids, article_id),
                           !.summarized = Append(r.summarized, text),
                           !.calls = Append(r.calls, call),
                           !.seen_ids = Append(r.seen_ids, article_id),
                           !.id_times = Append(r.id_times, t)]

\* the AI call is made only for a new article, with a client and a text
CallsFor(r, t) ==
    LET article == r.all_articles[r.aidx]
    IN  IF /\ _generate_article_id(article, t) \notin r.processed_ids
           /\ r.ai_client
           /\ SummaryInput(article) # <<>>
        THEN AiCalls ELSE {[kind |-> "nocall"]}

\* datetime.now() in _generate_article_id: two reads in one run may or may
\* not see the clock advance
ClockReads(r) ==
    IF IdBranch(r.all_articles[r.aidx]) = "title_now" THEN {now, now + 1} ELSE {now}

ProcessArticle(p) ==
    /\ run[p].pc = "process"
    /\ run[p].aidx <= Len(run[p].all_articles)
    /\ \E t \in ClockReads(run[p]) :
          /\ now' = t
          /\ \E call \in CallsFor(run[p], t) :
                run' = [run EXCEPT ![p] = ProcessOne(run[p], call, t)]
    /\ UNCHANGED <<processed_file, archive, feeds, today, api_key, scheduled, runs, stable, emitted>>

(***************************************************************************)
(* _process_articles, lines 211-213.                                       *)
(***************************************************************************)
ProcessEnd(p) ==
    /\ run[p].pc = "process"
    /\ run[p].aidx > Len(run[p].all_articles)
    /\ run' = [run EXCEPT
                 ![p].pc = "archive",
                 ![p].processed_articles =
                     [type |-> "dict",
                      dict |-> DictSet(run[p].processed_articles.dict, "processed_ids",
                                       IdList(run[p].processed_ids))]]
    /\ UNCHANGED <<processed_file, archive, feeds, now, today, api_key, scheduled, runs, stable, emitted>>

(***************************************************************************)
(* _save_daily_archive.  outcome is what the file system does to the       *)
(* writes: "ok"; "open_fails" (open(archive_path, 'w') raises, the file is *)
(* as it was); "dump_fails" (json.dump raises after the file was opened    *)
(* and truncated); "later_fails" (the archive file is written and a later  *)
(* step of the try block raises).  Every exception is caught and logged.   *)
(***************************************************************************)
PROJECT_CONFIG == [name |-> "Bleta", version |-> "1.0.0", language |-> "sq"]

ArchiveOutcomes == {"ok", "open_fails", "dump_fails", "later_fails"}

ArchiveData(articles, day, t) ==
    [date |-> StrfDate(day),
     timestamp |-> IsoFormat(t),
     project |-> PROJECT_CONFIG,
     articles |-> articles,
     total_articles |-> Len(articles),
     sources |-> [i \in DOMAIN articles |-> articles[i].source]]

\* _save_daily_archive without the early return on an empty list
_save_daily_archive_always(arch, articles, day, t, outcome) ==
    LET archive_path == get_archive_path(day)
    IN  CASE outcome = "open_fails" -> arch
          [] outcome = "dump_fails" ->
               [arch EXCEPT ![archive_path] = [kind |-> "garbage"]]
          [] OTHER ->
               [arch EXCEPT ![archive_path] =
                   JsonFile(ArchiveData(articles, day, t))]

_save_daily_archive(arch, articles, day, t, outcome) ==
    IF articles = <<>> THEN arch
    ELSE LET archive_path == get_archive_path(day)
         IN  CASE outcome = "open_fails" -> arch
               [] outcome = "dump_fails" ->
                    [arch EXCEPT ![archive_path] = [kind |-> "garbage"]]
               [] OTHER ->
                    [arch EXCEPT ![archive_path] =
                        JsonFile(ArchiveData(articles, day, t))]

SaveDailyArchive(p) ==
    /\ run[p].pc = "archive"
    /\ \E outcome \in IF run[p].new_articles = <<>> THEN {"skipped"} ELSE ArchiveOutcomes :
          /\ archive' = _save_daily_archive(archive, run[p].new_articles, today, now, outcome)
          /\ run' = [run EXCEPT ![p].pc = "save",
                                ![p].archive_calls = run[p].archive_calls + 1,
                                ![p].archive_outcome = outcome]
    /\ UNCHANGED <<processed_file, feeds, now, today, api_key, scheduled, runs, stable, emitted>>

(***************************************************************************)
(* _save_processed_articles, then the rest of run(): _generate_favicon     *)
(* catches every exception and touches neither the store nor the archive.  *)
(* outcome: "ok"; "open_fails" (the file is as it was); "dump_fails" (the  *)
(* file was opened for writing, so truncated, and json.dump raised).       *)
(***************************************************************************)
SaveOutcomes == {"ok", "open_fails", "dump_fails"}

\* self.processed_articles["last_updated"] = datetime.now().isoformat()
Stamped(pa, t) ==
    [type |-> "dict", dict |-> DictSet(pa.dict, "last_updated", IsoFormat(t))]

\* _save_processed_articles that writes only when the identities changed
_save_processed_articles_if_changed(file, pa, t, outcome) ==
    IF IdsOf(pa) = FileIds(file) THEN file
    ELSE CASE outcome = "open_fails" -> file
           [] outcome = "dump_fails" -> [kind |-> "garbage"]
           [] OTHER -> JsonFile(Stamped(pa, t))

_save_processed_articles(file, pa, t, outcome) ==
    CASE outcome = "open_fails" -> file
      [] outcome = "dump_fails" -> [kind |-> "garbage"]
      [] OTHER -> JsonFile(Stamped(pa, t))

SaveProcessed(p) ==
    /\ run[p].pc = "save"
    /\ \E outcome \in SaveOutcomes :
          /\ processed_file' = _save_processed_articles(
                                   processed_file, run[p].processed_articles, now, outcome)
          /\ run' = [run EXCEPT ![p].pc = "done",
                                ![p].processed_articles =
                                    Stamped(run[p].processed_articles, now),
                                ![p].save_calls = run[p].save_calls + 1,
                                ![p].save_outcome = outcome,
                                ![p].archived_before_save = (run[p].archive_calls = 1)]
          /\ stable' = (outcome = "ok")
    /\ UNCHANGED <<archive, feeds, now, today, api_key, scheduled, runs, emitted>>

(***************************************************************************)
(* The process ends: main() returns after run(), or the exception that     *)
(* left run() ends it.  Nothing of the aggregator object survives.         *)
(***************************************************************************)
\* the run loaded the store (or found none) and saved it
StoreKept(r) ==
    /\ r.pc = "done"
    /\ r.file_at_start.kind \in {"missing", "json"}
    /\ r.save_outcome = "ok"

OutputLinks(r) == {r.new_articles[k].link : k \in DOMAIN r.new_articles} \ {<<>>}

Exit(p) ==
    /\ run[p].pc \in {"done", "aborted"}
    /\ run' = [run EXCEPT ![p] = IdleRun]
    /\ emitted' = IF emitted.ok /\ StoreKept(run[p])
                  THEN [links |-> emitted.links \cup OutputLinks(run[p]), ok |-> TRUE]
                  ELSE [links |-> {}, ok |-> FALSE]
    /\ UNCHANGED <<processed_file, archive, feeds, now, today, api_key, scheduled, runs, stable>>

(***************************************************************************)
(* The world between two invocations: a source serves something else, the  *)
(* date changes.                                                           *)
(***************************************************************************)
Between == runs >= 1 /\ runs < scheduled /\ \A q \in Procs : Quiet(q)

ChangeFeed ==
    /\ Between
    /\ \E w \in RunWorlds :
          /\ w # feeds
          /\ feeds' = w
    /\ stable' = FALSE
    /\ UNCHANGED <<processed_file, archive, now, today, api_key, scheduled, runs, run, emitted>>

NextDay ==
    /\ Between
    /\ today < MaxDay
    /\ today' = today + 1
    /\ UNCHANGED <<processed_file, archive, feeds, now, api_key, scheduled, runs, stable, run, emitted>>

Next ==
    \/ \E p \in SeqProcs : StartRun(p)
    \/ \E p \in SeqProcs : FetchSource(p)
    \/ \E p \in SeqProcs : ProcessBegin(p)
    \/ \E p \in SeqProcs : ProcessArticle(p)
    \/ \E p \in SeqProcs : ProcessEnd(p)
    \/ \E p \in SeqProcs : SaveDailyArchive(p)
    \/ \E p \in SeqProcs : SaveProcessed(p)
    \/ \E p \in SeqProcs : Exit(p)

NextRuns ==
    \/ Next
    \/ ChangeFeed
    \/ NextDay

\* Two invocations that may overlap, against the same store directory.  Each
\* step of an invocation (a fetch, an article, a file written) is atomic.
InitRace ==
    /\ scheduled = Cardinality(Procs)
    /\ api_key = FALSE
    /\ processed_file \in RunFiles
    /\ feeds \in RaceWorlds
    /\ archive = [q \in ArchivePaths |-> NoFile]
    /\ now = 1
    /\ today = 1
    /\ runs = 0
    /\ stable = FALSE
    /\ run = [p \in Procs |-> IdleRun]
    /\ emitted = [links |-> {}, ok |-> TRUE]

NextRace ==
    \/ \E p \in Procs : StartOverlapping(p)
    \/ \E p \in Procs : FetchSource(p)
    \/ \E p \in Procs : ProcessBegin(p)
    \/ \E p \in Procs : ProcessArticle(p)
    \/ \E p \in Procs : ProcessEnd(p)
    \/ \E p \in Procs : SaveDailyArchive(p)
    \/ \E p \in Procs : SaveProcessed(p)
    \/ \E p \in Procs : Exit(p)

\* one invocation
Spec == Init /\ [][Next]_vars

\* successive invocations
SpecRuns == InitRuns /\ [][NextRuns]_vars

\* overlapping invocations
SpecRace == InitRace /\ [][NextRace]_vars

(***************************************************************************)
(* Properties.                                                             *)
(***************************************************************************)
Done(p) == run[p].pc = "done"

\* _process_articles has returned
Processed(p) == run[p].pc \in {"archive", "save", "done"}

\* C1: Idempotence.  A run that starts right after a run that saved the
\* store, with every source answering what it answered to that run, ends with
\* zero new articles.
Idempotence ==
    \A p \in Procs : Done(p) /\ run[p].succ => run[p].new_articles = <<>>

\* C3: after a run, every identity the run newly persisted in processed_ids
\* is the identity of an article the same run wrote into the archive record
\* of the day.
StoreHoldsOnlyArchived ==
    \A p \in Procs :
        Done(p) =>
            \A id \in FileIds(processed_file) \ FileIds(run[p].file_at_start) :
                /\ run[p].archive_outcome \in {"ok", "later_fails"}
                /\ \E k \in DOMAIN run[p].new_ids : run[p].new_ids[k] = id

\* a dedup file that is not the expected record: not JSON, or JSON of
\* another shape
Malformed(file) ==
    \/ file.kind = "garbage"
    \/ /\ file.kind = "json"
       /\ \/ file.value.type # "dict"
          \/ /\ "processed_ids" \in DOMAIN file.value.dict
             /\ file.value.dict["processed_ids"].type # "list"

\* C8: the load of the dedup store is never fatal.  Whatever the file holds,
\* the run does not abort in Dedup+Filter, and it works on an empty store
\* when the content is malformed.
LoadNeverFatal ==
    \A p \in Procs :
        /\ run[p].pc # "aborted"
        /\ run[p].pc = "process" /\ run[p].aidx = 1 /\ Malformed(run[p].file_at_start)
              => run[p].processed_ids = {}

\* C9: the run always completes.  A run that has ended has attempted the
\* archive step and the save of the dedup store.
RunAlwaysCompletes ==
    \A p \in Procs :
        run[p].pc \in {"done", "aborted"} =>
            run[p].archive_calls = 1 /\ run[p].save_calls = 1

\* C10: the identity of an article whose link is empty is title_published
\* when title and published are both non-empty, and otherwise
\* title_timestamp, with "unknown" for an empty or absent title.
ClaimedFallbackId(article, t) ==
    IF Truthy(article, "title") /\ Truthy(article, "published")
    THEN article["title"] \o <<"_">> \o article["published"]
    ELSE (IF Truthy(article, "title") THEN article["title"] ELSE Unknown)
         \o <<"_">> \o IsoFormat(t)

IdentityFallbackBranches ==
    \A p \in Procs :
        \A i \in DOMAIN run[p].seen_ids :
            ~Truthy(run[p].all_articles[i], "link") =>
                run[p].seen_ids[i] =
                    ClaimedFallbackId(run[p].all_articles[i], run[p].id_times[i])

(***************************************************************************)
(* Cross-source collapse.                                                  *)
(***************************************************************************)
\* the response is an HTTP failure: a timeout, a DNS failure, a status that
\* is not 2xx
HttpFailure(response) ==
    \/ response.kind \in {"timeout", "dns"}
    \/ response.kind = "ok" /\ ~(response.status \in 200..299)

LinksOf(entries) ==
    {Get(entries[i], "link", <<>>) : i \in DOMAIN entries} \ {<<>>}

\* the links of the entries a source returned, and of those among its first
\* max_articles_per_source entries
ReturnedLinks(response) ==
    IF HttpFailure(response) THEN {} ELSE LinksOf(response.entries)

RetainedLinks(response) ==
    IF HttpFailure(response) THEN {}
    ELSE LinksOf(Prefix(response.entries, max_articles_per_source))

\* the links that two distinct enabled sources returned in the run of p
SharedLinks(p) ==
    {L \in UNION {ReturnedLinks(run[p].fetched[i]) : i \in DOMAIN run[p].fetched} :
        \E i, j \in DOMAIN run[p].fetched :
            /\ i < j
            /\ L \in ReturnedLinks(run[p].fetched[i])
            /\ L \in ReturnedLinks(run[p].fetched[j])}

WithLink(p, L) == {k \in DOMAIN run[p].new_articles : run[p].new_articles[k].link = L}

\* the first source, in registration order, among the sources in I
FirstSourceName(I) == get_enabled_sources[MinOf(I)].name

\* C2 as stated: for a link that two enabled sources return, the enriched
\* output has exactly one article with it, the one of the source that comes
\* first in registration order.
CrossSourceCollapseExactlyOne ==
    \A p \in Procs :
        Processed(p) =>
            \A L \in SharedLinks(p) :
                /\ Cardinality(WithLink(p, L)) = 1
                /\ \A k \in WithLink(p, L) :
                      run[p].new_articles[k].source =
                          FirstSourceName({i \in DOMAIN run[p].fetched :
                                              L \in ReturnedLinks(run[p].fetched[i])})

\* the identity L is taken when the first article with link L is reached: it
\* was loaded from the store, or an earlier article of the run got it
Taken(p, L) ==
    LET occ == {i \in DOMAIN run[p].all_articles : run[p].all_articles[i].link = L}
    IN  \/ L \in FileIds(run[p].file_at_start)
        \/ \E j \in DOMAIN run[p].seen_ids : j < MinOf(occ) /\ run[p].seen_ids[j] = L

\* C2, amended: for a link that two enabled sources return, the enriched
\* output has at most one article with it; it has one exactly when the link
\* is among the first max_articles_per_source entries of some source and its
\* identity is not taken when the first such article is reached; that
\* article is the one of the first such source in registration order.
CrossSourceCollapse ==
    \A p \in Procs :
        Processed(p) =>
            \A L \in SharedLinks(p) :
                LET holders == {i \in DOMAIN run[p].fetched :
                                   L \in RetainedLinks(run[p].fetched[i])}
                IN  /\ Cardinality(WithLink(p, L)) <= 1
                    /\ (WithLink(p, L) # {}) = (holders # {} /\ ~Taken(p, L))
                    /\ \A k \in WithLink(p, L) :
                          run[p].new_articles[k].source = FirstSourceName(holders)

\* two sources returned the same link and the article of the first survived
CrossSourceCollapseWitness ==
    \E p \in Procs :
        /\ Processed(p)
        /\ \E L \in SharedLinks(p) :
              /\ Cardinality(WithLink(p, L)) = 1
              /\ \A k \in WithLink(p, L) :
                    run[p].new_articles[k].source = get_enabled_sources[1].name

(***************************************************************************)
(* Archive skip rule, dedup-store rewrite.                                 *)
(***************************************************************************)
\* C4: when the run has no new article, _save_daily_archive writes nothing:
\* every archive record, the one of the current date too, is as it was when
\* the run started.
ArchiveSkipRule ==
    \A p \in Procs :
        run[p].pc \in {"save", "done"} /\ run[p].new_articles = <<>> =>
            archive = run[p].archive_at_start

\* a run without new articles went through the archive step on a day that
\* has a record
ArchiveSkipWitness ==
    \E p \in Procs :
        /\ run[p].pc = "save"
        /\ run[p].new_articles = <<>>
        /\ archive[get_archive_path(today)].kind = "json"

WellFormed(file) ==
    /\ file.kind = "json"
    /\ file.value.type = "dict"
    /\ DOMAIN file.value.dict = {"processed_ids", "last_updated"}
    /\ file.value.dict["processed_ids"].type = "list"

\* C5: a run that reaches Finalize saves the dedup store exactly once, after
\* the archive step, whatever the number of new articles; what a successful
\* write leaves is the record with the identities of the run added and a
\* fresh last_updated, so with zero new articles the set of processed_ids is
\* the one found at the start, and of a well-formed record only last_updated
\* differs.
DedupStoreWrittenOnce ==
    \A p \in Procs :
        /\ run[p].save_calls <= 1
        /\ run[p].save_calls = 1 => run[p].archive_calls = 1
        /\ Done(p) => run[p].save_calls = 1 /\ run[p].archived_before_save
        /\ Done(p) /\ run[p].save_outcome = "ok" =>
              /\ processed_file.kind = "json"
              /\ processed_file.value.dict["last_updated"] = IsoFormat(now)
              /\ FileIds(processed_file) =
                     FileIds(run[p].file_at_start)
                        \cup {run[p].new_ids[k] : k \in DOMAIN run[p].new_ids}
        /\ Done(p) /\ run[p].save_outcome = "ok" /\ run[p].new_articles = <<>> =>
              /\ FileIds(processed_file) = FileIds(run[p].file_at_start)
              /\ WellFormed(run[p].file_at_start) =>
                    /\ processed_file.value.dict["processed_ids"] =
                           run[p].file_at_start.value.dict["processed_ids"]
                    /\ processed_file.value.dict["last_updated"] #
                           run[p].file_at_start.value.dict["last_updated"]
                    /\ DOMAIN processed_file.value.dict =
                           DOMAIN run[p].file_at_start.value.dict

\* a run without new articles rewrote a store that holds identities
DedupStoreWrittenOnceWitness ==
    \E p \in Procs :
        /\ Done(p)
        /\ run[p].new_articles = <<>>
        /\ run[p].save_outcome = "ok"
        /\ WellFormed(run[p].file_at_start)
        /\ FileIds(processed_file) # {}

(***************************************************************************)
(* Source failure containment.                                             *)
(***************************************************************************)
\* what the run would have fetched from its first n sources, had every
\* failing source returned an empty feed
RECURSIVE FetchedAsIfEmpty(_, _)
FetchedAsIfEmpty(p, n) ==
    IF n = 0 THEN <<>>
    ELSE FetchedAsIfEmpty(p, n - 1)
         \o _fetch_rss_feed(get_enabled_sources[n],
                            IF HttpFailure(run[p].fetched[n]) THEN Ok(<<>>)
                            ELSE run[p].fetched[n],
                            run[p].started_at)

NoAiText(p, k) ==
    \/ ~run[p].ai_client
    \/ run[p].calls[k].kind \in {"raise", "none"}
    \/ run[p].calls[k].kind = "text" /\ run[p].calls[k].text = <<>>

\* C7: when the AI client is unset, or the call raises, or the response is
\* empty, the summary is the text itself when it has at most 200 characters
\* and its first 200 characters followed by "..." otherwise.
FallbackCorrectness ==
    \A p \in Procs :
        \A k \in DOMAIN run[p].new_articles :
            LET text == run[p].summarized[k]
            IN  NoAiText(p, k) =>
                    run[p].new_articles[k].ai_summary =
                        IF Len(text) <= SummaryBudget THEN text
                        ELSE SubSeq(text, 1, SummaryBudget) \o <<".", ".", ".">>

\* the call raised on a text longer than the budget, and the summary is the
\* truncated text
FallbackWitness ==
    \E p \in Procs :
        \E k \in DOMAIN run[p].new_articles :
            /\ run[p].ai_client
            /\ run[p].calls[k].kind = "raise"
            /\ Len(run[p].summarized[k]) > SummaryBudget
            /\ Len(run[p].new_articles[k].ai_summary) = SummaryBudget + 3

(***************************************************************************)
(* Identity of articles with a link.                                       *)
(***************************************************************************)
\* C11: two articles with the same non-empty link get the same identity, the
\* link itself, whatever their other fields and whatever the clock reads
\* when the identity is computed.
DedupCorrectness ==
    \A p \in Procs :
        \A i, j \in DOMAIN run[p].seen_ids :
            LET a == run[p].all_articles[i]
                b == run[p].all_articles[j]
            IN  Truthy(a, "link") /\ a.link = b.link =>
                    /\ run[p].seen_ids[i] = a.link
                    /\ run[p].seen_ids[j] = run[p].seen_ids[i]
                    /\ \A t \in 0..(now + 1) : _generate_article_id(b, t) = a.link

\* the run computed the identity of two articles that share a link and
\* differ in title, published, source and guid
DedupCorrectnessWitness ==
    \E p \in Procs :
        \E i, j \in DOMAIN run[p].seen_ids :
            LET a == run[p].all_articles[i]
                b == run[p].all_articles[j]
            IN  /\ Truthy(a, "link") /\ a.link = b.link
                /\ a.title # b.title /\ a.published # b.published
                /\ a.source # b.source /\ a.guid # b.guid
                /\ run[p].seen_ids[i] = run[p].seen_ids[j]

(***************************************************************************)
(* Normalization.                                                          *)
(***************************************************************************)
\* C12: Normalization idempotence.  The title and the description of every
\* fetched article are outputs of _clean_text, and _clean_text leaves each
\* of them as it is.
NormalizationIdempotence ==
    \A p \in Procs :
        \A i \in DOMAIN run[p].all_articles :
            /\ _clean_text(run[p].all_articles[i].title) = run[p].all_articles[i].title
            /\ _clean_text(run[p].all_articles[i].description) =
                   run[p].all_articles[i].description

(***************************************************************************)
(* Output ordering.                                                        *)
(***************************************************************************)
\* the first max_articles_per_source entries of the feeds of the first n
\* sources the run fetched, in source order then feed order, each with the
\* position of its source
RECURSIVE RetainedEntries(_, _)
RetainedEntries(p, n) ==
    IF n = 0 THEN <<>>
    ELSE LET response == run[p].fetched[n]
             kept == IF HttpFailure(response) THEN <<>>
                     ELSE Prefix(response.entries, max_articles_per_source)
         IN  RetainedEntries(p, n - 1)
             \o [k \in DOMAIN kept |-> [src |-> n, entry |-> kept[k]]]

\* the article without its summary
Raw(article) == [k \in DOMAIN article \ {"ai_summary"} |-> article[k]]

\* a[i..] is a subsequence of b[j..]
RECURSIVE IsSubseqFrom(_, _, _, _)
IsSubseqFrom(a, i, b, j) ==
    IF i > Len(a) THEN TRUE
    ELSE IF j > Len(b) THEN FALSE
    ELSE IF Raw(a[i]) = b[j] THEN IsSubseqFrom(a, i + 1, b, j + 1)
    ELSE IsSubseqFrom(a, i, b, j + 1)

\* C13: Output ordering.  The fetched articles are, one for one and in
\* order, the first max_articles_per_source entries of each enabled source
\* in registration order; the enriched list is a subsequence of them; the
\* archive step writes the enriched list as it is; no source has more than
\* max_articles_per_source articles in it.
OutputOrdering ==
    \A p \in Procs :
        LET retained == RetainedEntries(p, Len(run[p].fetched))
            articles == run[p].all_articles
            new == run[p].new_articles
        IN  /\ Len(articles) = Len(retained)
            /\ \A k \in DOMAIN articles :
                  /\ articles[k].source = get_enabled_sources[retained[k].src].name
                  /\ articles[k].link = Get(retained[k].entry, "link", <<>>)
                  /\ articles[k].published = Get(retained[k].entry, "published", <<>>)
            /\ IsSubseqFrom(new, 1, articles, 1)
            /\ \A n \in EnabledNames :
                  Cardinality({k \in DOMAIN new : new[k].source = n})
                      <= max_articles_per_source
            /\ run[p].pc \in {"save", "done"} /\ run[p].archive_outcome \in {"ok", "later_fails"} =>
                  archive[get_archive_path(today)].value.articles = new

\* a source returned more than max_articles_per_source entries, and the
\* enriched list has articles of two sources and fewer than were fetched
OutputOrderingWitness ==
    \E p \in Procs :
        /\ run[p].pc = "done"
        /\ run[p].archive_outcome = "ok"
        /\ \E i \in DOMAIN run[p].fetched :
              /\ ~HttpFailure(run[p].fetched[i])
              /\ Len(run[p].fetched[i].entries) > max_articles_per_source
        /\ Len(run[p].new_articles) < Len(run[p].all_articles)
        /\ \E j, k \in DOMAIN run[p].new_articles :
              run[p].new_articles[j].source # run[p].new_articles[k].source

(***************************************************************************)
(* Overlapping invocations.                                                *)
(***************************************************************************)
\* the identities the run of p gave to its new articles
NewIds(p) == {run[p].new_ids[k] : k \in DOMAIN run[p].new_ids}

NewLinks(p) ==
    {run[p].new_articles[k].link : k \in DOMAIN run[p].new_articles} \ {<<>>}

\* C14: Concurrent invocations race.  Nothing merges the views of two
\* invocations: an invocation takes an article as new exactly when its
\* identity is neither in the store it loaded at its start nor given
\* earlier in the same invocation, whatever the other one has done since,
\* and the file, once both have ended, holds the view of one of them alone
\* -- the identities it loaded and its own -- unless no write went through.
\* Lost updates and double processing are the reachable consequences.
ConcurrentInvocationsRace ==
    /\ \A p \in Procs :
          \A i \in DOMAIN run[p].seen_ids :
              (run[p].seen_ids[i] \in NewIds(p))
                  = (run[p].seen_ids[i] \notin FileIds(run[p].file_at_start))
    /\ (\A p \in Procs : Done(p)) =>
          \/ processed_file.kind # "json"
          \/ \E p \in Procs :
                /\ run[p].save_outcome = "ok"
                /\ FileIds(processed_file) =
                       FileIds(run[p].file_at_start) \cup NewIds(p)

\* both invocations loaded the store before either saved it, both archived
\* and saved with success; an identity one of them saved is not in the
\* final store, and both processed and archived the article of one link
ConcurrentInvocationsRaceWitness ==
    /\ \A p \in Procs :
          /\ Done(p)
          /\ run[p].save_outcome = "ok"
          /\ run[p].archive_outcome = "ok"
          /\ run[p].file_at_start.kind = "missing"
    /\ \E p \in Procs : \E id \in NewIds(p) : id \notin FileIds(processed_file)
    /\ \E L \in NewLinks(1) : L \in NewLinks(2)

(***************************************************************************)
(* Unstable fallback identity.                                             *)
(***************************************************************************)
\* no link, no published, a title
Unstable(article) ==
    /\ ~Truthy(article, "link")
    /\ ~Truthy(article, "published")
    /\ Truthy(article, "title")

FetchedUnstable(p) ==
    {i \in DOMAIN run[p].all_articles : Unstable(run[p].all_articles[i])}

NewUnstable(p) ==
    {k \in DOMAIN run[p].new_articles : Unstable(run[p].new_articles[k])}

\* C15 as stated: every fetched entry without link and published and with a
\* title is treated as new by the run, and a run that saves the store adds
\* one identity to processed_ids for each of them.
UnstableAlwaysNew ==
    \A p \in Procs :
        /\ Processed(p) =>
              Cardinality(NewUnstable(p)) = Cardinality(FetchedUnstable(p))
        /\ Done(p) /\ run[p].save_outcome = "ok" =>
              Cardinality(FileIds(processed_file) \ FileIds(run[p].file_at_start))
                  >= Cardinality(FetchedUnstable(p))

\* the entries of FetchedUnstable(p) that no earlier article of the run
\* shares its identity with
FirstOfIdentity(p) ==
    {i \in FetchedUnstable(p) :
        \A j \in 1..(i - 1) : run[p].seen_ids[j] # run[p].seen_ids[i]}

\* C15, amended: the identity of such an entry is never one the store held
\* at the start of the run, whatever earlier runs saved; the entry is
\* treated as new unless an earlier article of the same run got the same
\* identity, which takes the same title and the same clock reading; the
\* first such entry of a run is always new, and a run that saves the store
\* adds every such identity to processed_ids.
UnstableFallbackIdentity ==
    \A p \in Procs :
        /\ \A i \in FetchedUnstable(p) \cap DOMAIN run[p].seen_ids :
              /\ run[p].seen_ids[i] \notin FileIds(run[p].file_at_start)
              /\ \A j \in 1..(i - 1) :
                    run[p].seen_ids[j] = run[p].seen_ids[i] =>
                        /\ run[p].all_articles[j].title = run[p].all_articles[i].title
                        /\ Unstable(run[p].all_articles[j])
                        /\ run[p].id_times[j] = run[p].id_times[i]
        /\ Processed(p) =>
              /\ Cardinality(NewUnstable(p)) = Cardinality(FirstOfIdentity(p))
              /\ FetchedUnstable(p) # {} => NewUnstable(p) # {}
        /\ Done(p) /\ run[p].save_outcome = "ok" =>
              \A i \in FetchedUnstable(p) :
                  run[p].seen_ids[i] \in
                      FileIds(processed_file) \ FileIds(run[p].file_at_start)

\* a run that loaded a store with the identity an earlier run gave to the
\* entry took the entry as new again and saved one more identity for it
UnstableFallbackWitness ==
    \E p \in Procs :
        /\ Done(p)
        /\ run[p].save_outcome = "ok"
        /\ \E i \in FetchedUnstable(p) :
              \E old \in FileIds(run[p].file_at_start) :
                  /\ old # run[p].seen_ids[i]
                  /\ Len(old) > Len(run[p].all_articles[i].title)
                  /\ SubSeq(old, 1, Len(run[p].all_articles[i].title) + 1)
                         = run[p].all_articles[i].title \o <<"_">>
                  /\ run[p].seen_ids[i] \in FileIds(processed_file)
                  /\ old \in FileIds(processed_file)

(***************************************************************************)
(* One Summarizer invocation per retained article.                         *)
(***************************************************************************)
\* C16: the run has made one Summarizer invocation for each article of the
\* enriched output and none for a skipped article; the invocation of an
\* article was made on its description when that is not empty and on its
\* title otherwise, and its result is the ai_summary of the article.
OneSummaryPerArticle ==
    \A p \in Procs :
        /\ Len(run[p].summarized) = Len(run[p].new_articles)
        /\ Len(run[p].calls) = Len(run[p].new_articles)
        /\ \A k \in DOMAIN run[p].new_articles :
              LET article == run[p].new_articles[k]
              IN  /\ "ai_summary" \in DOMAIN article
                  /\ run[p].summarized[k] =
                         IF article.description # <<>> THEN article.description
                         ELSE article.title
                  /\ article.ai_summary =
                         _summarize_with_gemini(run[p].ai_client, run[p].calls[k],
                                                run[p].summarized[k])
                  /\ (run[p].calls[k].kind # "nocall") =
                         (run[p].ai_client /\ run[p].summarized[k] # <<>>)

\* with an AI client, the run summarized one article on its description
\* and one on its title, the service answering, and skipped a third
OneSummaryPerArticleWitness ==
    \E p \in Procs :
        /\ Done(p)
        /\ run[p].ai_client
        /\ Len(run[p].seen_ids) > Len(run[p].new_articles)
        /\ \E j, k \in DOMAIN run[p].new_articles :
              /\ run[p].new_articles[j].description # <<>>
              /\ run[p].summarized[j] = run[p].new_articles[j].description
              /\ run[p].new_articles[k].description = <<>>
              /\ run[p].summarized[k] = run[p].new_articles[k].title
              /\ run[p].calls[k].kind = "text"
              /\ run[p].new_articles[k].ai_summary = <<"s">>

(***************************************************************************)
(* A save of the dedup store that fails.                                   *)
(***************************************************************************)
\* C17: when the write of the dedup store fails, at whatever point, the run
\* still ends, and the store the next run loads holds exactly the
\* processed_ids that were persisted before the run.
FailedSaveKeepsStore ==
    \A p \in Procs :
        run[p].save_calls = 1 /\ run[p].save_outcome # "ok" =>
            /\ Done(p)
            /\ FileIds(processed_file) = FileIds(run[p].file_at_start)

(***************************************************************************)
(* Archive records over several runs.                                      *)
(***************************************************************************)
\* the articles a later reader finds in an archive file
ArchivedArticles(file) ==
    IF file.kind = "json"
    THEN {file.value.articles[k] : k \in DOMAIN file.value.articles}
    ELSE {}

\* C18: archive records never lose articles.  Every article that was in the
\* archive record of a day when a run started is in the record of that day
\* when the run has gone through its archive step.
ArchiveNeverLoses ==
    \A p \in Procs :
        run[p].pc \in {"save", "done"} =>
            \A q \in ArchivePaths :
                ArchivedArticles(run[p].archive_at_start[q]) \subseteq
                    ArchivedArticles(archive[q])

(***************************************************************************)
(* At-most-once processing across runs.                                    *)
(***************************************************************************)
\* C19: while every load and save of the store has succeeded, no link of
\* the enriched output of a run was in the enriched output of an earlier
\* run, whatever the sources answered to each, and the processed_ids a run
\* saves include those that were persisted before it.
AtMostOnceAcrossRuns ==
    \A p \in Procs :
        /\ /\ emitted.ok
           /\ run[p].pc # "idle"
           /\ run[p].file_at_start.kind \in {"missing", "json"}
           => OutputLinks(run[p]) \cap emitted.links = {}
        /\ Done(p) /\ run[p].save_outcome = "ok" =>
              FileIds(run[p].file_at_start) \subseteq FileIds(processed_file)

\* after a run that put a link in its output and saved the store, the feeds
\* changed, and a later run met that link again and another new one: it
\* skipped the first and processed the second
AtMostOnceWitness ==
    \E p \in Procs :
        /\ Done(p)
        /\ run[p].save_outcome = "ok"
        /\ emitted.ok
        /\ OutputLinks(run[p]) # {}
        /\ \E i \in DOMAIN run[p].all_articles :
              run[p].all_articles[i].link \in emitted.links

(***************************************************************************)
(* Identity collisions.                                                    *)
(***************************************************************************)
\* the two articles are the same item as far as the identity scheme goes:
\* the same non-empty link, or no link and the same title and published
SameItem(a, b) ==
    \/ a.link # <<>> /\ a.link = b.link
    \/ /\ a.link = <<>> /\ b.link = <<>>
       /\ a.title = b.title
       /\ a.published = b.published

\* C20: identity collisions only for the same item.  Two articles of a run
\* get the same identity from _generate_article_id only if they have the
\* same non-empty link, or both have no link and equal title and published.
CollisionsOnlyForSameItem ==
    \A p \in Procs :
        \A i, j \in DOMAIN run[p].seen_ids :
            run[p].seen_ids[i] = run[p].seen_ids[j] =>
                SameItem(run[p].all_articles[i], run[p].all_articles[j])

====
